---- MODULE Spec2Model ----
(***************************************************************************)
(* Visitor session state machine of backend/server.py: the visitors and    *)
(* pages collections, the request handlers that mutate them, and the       *)
(* events each handler hands to the ConnectionManager.                     *)
(*                                                                         *)
(* Spec     : every request handler runs to completion before the next     *)
(*            one starts (sequential admin / visitor requests).            *)
(* ConcSpec : an admin handler is suspended at the await between its       *)
(*            find_one and its update_one while other requests are served. *)
(* AdminSpec: the ConnectionManager's admin connections; every             *)
(*            broadcast_admins call runs to completion.                    *)
(* BcastSpec: broadcast_admins calls suspended at the await of each send,  *)
(*            interleaved with each other and with connects / disconnects. *)
(* LiveSpec : BcastSpec with peers that stop reading, and the event loop   *)
(*            resuming every coroutine whose awaited send is over.         *)
(* VisSpec  : the ConnectionManager's visitor connections, and what the    *)
(*            admin handlers' notify_visitor calls deliver to them.        *)
(***************************************************************************)
EXTENDS Integers, Sequences, FiniteSets, TLC

\* ---------------------------------------------------------------- bounds
MaxVisitors == 1      \* visitor documents ever inserted (each gets a fresh uuid)
MaxPages    == 2      \* page documents ever inserted (each gets a fresh uuid)
MaxOvertakes == 1     \* requests served while one handler is suspended at an await
MaxAdminConns == 2    \* admin WebSocket objects ever accepted
MaxBroadcasts == 2    \* broadcast_admins calls in flight at once
MaxLog == 2           \* events delivered to the visitor WebSockets

\* ------------------------------------------------------ program constants
MinRotationPages == 2
MaxRotationPages == 6
None == 0             \* a page_id / id that is None

Sessions == {"s1", "s2"}
VisitorIds == 1..MaxVisitors
AdminConns == 1..MaxAdminConns
VisConns == {"c1", "c2"}        \* visitor WebSocket objects
NoConn == "none"                \* visitor_connections.get(session_id) is None
Broadcasts == 1..MaxBroadcasts
PageIds == 1..MaxPages

\* content stored with the n-th page created (PageCreate.content)
ContentOf(n) == <<"content", n>>
NoContent == <<"None", 0>>      \* page_content: None
Absent == <<"absent", 0>>       \* key not present in the payload

\* page_ids lists a rotation request carries: one per length, cycling over the
\* page ids; the lengths are the empty list, the two limits, and the lengths
\* just outside them
ListLens == {0, MinRotationPages - 1, MinRotationPages,
             MaxRotationPages, MaxRotationPages + 1}
PageList(n) == [i \in 1..n |-> ((i - 1) % MaxPages) + 1]
PageLists == {PageList(n) : n \in ListLens}

VARIABLES
    visitors,   \* db.visitors: id -> document
    pages,      \* db.pages: id -> document
    nextVisitor,\* number of visitor uuids handed out
    nextPage,   \* number of page uuids handed out
    ret,        \* what the last completed request returned
    sent,       \* events the last completed request handed to the manager
    frozen,     \* per visitor id: page_content of the stop_rotation that froze it
    req,        \* the request whose handler is suspended at an await (ConcSpec)
    admin_connections, \* manager.admin_connections: list of admin WebSockets
    aconn,      \* per admin WebSocket: new, open, broken (send raises), stuck
                \* (send neither returns nor raises) or closed
    tasks,      \* per broadcast_admins call: where it is, the send it awaits,
                \* dead, who got the data, and who was connected when it began
    visitor_connections, \* manager.visitor_connections: session_id -> WebSocket
    vconn,      \* per visitor WebSocket: its state and the session_id of its url
    delivered   \* per visitor WebSocket: the events sent to it, in order

dbvars == <<visitors, pages, nextVisitor, nextPage, ret, sent, frozen, req>>
admvars == <<admin_connections, aconn, tasks>>
visvars == <<visitor_connections, vconn, delivered>>
regvars == <<admin_connections, aconn, tasks, visitor_connections, vconn, delivered>>
vars == <<visitors, pages, nextVisitor, nextPage, ret, sent, frozen, req,
          admin_connections, aconn, tasks, visitor_connections, vconn, delivered>>

\* ------------------------------------------------------------- documents
NewVisitor(id, sid) ==
    [id |-> id, session_id |-> sid, status |-> "pending", page_id |-> None,
     rot_keys |-> FALSE, rotation_pages |-> <<>>, current_page_index |-> 0,
     is_rotating |-> FALSE]

NewPage(id, isdef) ==
    [id |-> id, content |-> ContentOf(id), is_default |-> isdef]

\* db.visitors.find_one({"session_id": sid}): the first matching document
FindBySession(vs, sid) ==
    LET m == {i \in DOMAIN vs : vs[i].session_id = sid}
    IN  IF m = {} THEN None ELSE CHOOSE i \in m : \A j \in m : i <= j

\* db.pages.find_one({"is_default": True})
FindDefaultPage(pgs) ==
    LET m == {i \in DOMAIN pgs : pgs[i].is_default}
    IN  IF m = {} THEN None ELSE CHOOSE i \in m : \A j \in m : i <= j

\* page.get("content") if page else None, for db.pages.find_one({"id": pid})
ContentById(pgs, pid) ==
    IF pid \in DOMAIN pgs THEN pgs[pid].content ELSE NoContent

DefaultContent(pgs) ==
    ContentById(pgs, FindDefaultPage(pgs))

\* ---------------------------------------------------------------- events
VisitorEvent(sid, name, content, idx, total, rot) ==
    [ch |-> "visitor", sid |-> sid, vid |-> None, event |-> name,
     content |-> content, index |-> idx, total |-> total, rotation_mode |-> rot,
     status |-> ""]

AdminEvent(name, vid, status, rot) ==
    [ch |-> "admins", sid |-> "", vid |-> vid, event |-> name,
     content |-> Absent, index |-> 0, total |-> 0, rotation_mode |-> rot,
     status |-> status]

\* create_alert: broadcast of the stored alert
AlertEvent == AdminEvent("new_alert", None, "", FALSE)

\* what a request returned; req_ids repeats the page_ids of the request's body
Ret(op, vid, sid, code, status, content, idx, total) ==
    [op |-> op, vid |-> vid, sid |-> sid, code |-> code, status |-> status,
     content |-> content, index |-> idx, total |-> total,
     req_ids |-> <<>>]

OfRequest(r, page_ids) ==
    [r EXCEPT !.req_ids = page_ids]

NoRet == Ret("none", None, "", 0, "", Absent, 0, 0)

\* a broadcast_admins call that has not started
NoTask ==
    [pc |-> "idle", i |-> 1, ws |-> None, dead |-> <<>>, got |-> {}, before |-> {}]

NoReq ==
    [pc |-> "idle", op |-> "none", vid |-> None, visitor |-> NewVisitor(None, ""),
     body_page |-> None, page_ids |-> <<>>, overtaken |-> 0]

\* a request may be served: the last response is out, and a suspended handler
\* has not yet been overtaken by MaxOvertakes requests
MayServe ==
    /\ ret = NoRet
    /\ (req.pc = "idle" \/ req.overtaken < MaxOvertakes)

\* the suspended handler, if any, after one more request was served
Overtaken(r) ==
    IF r.pc = "idle" THEN r ELSE [r EXCEPT !.overtaken = @ + 1]

Init ==
    /\ visitors = <<>>
    /\ pages = <<>>
    /\ nextVisitor = 0
    /\ nextPage = 0
    /\ ret = NoRet
    /\ sent = <<>>
    /\ frozen = [i \in VisitorIds |-> Absent]
    /\ req = NoReq
    /\ admin_connections = <<>>
    /\ aconn = [a \in AdminConns |-> "new"]
    /\ tasks = [t \in Broadcasts |-> NoTask]
    /\ visitor_connections = [sid \in Sessions |-> NoConn]
    /\ vconn = [c \in VisConns |-> [state |-> "new", sid |-> ""]]
    /\ delivered = [c \in VisConns |-> <<>>]

\* the response of the last request reaches its caller and its events have left
\* the manager; the next request is served after that
Respond ==
    /\ ret # NoRet
    /\ ret' = NoRet
    /\ sent' = <<>>
    /\ UNCHANGED <<visitors, pages, nextVisitor, nextPage, frozen, req>>

\* ---------------------------------------------------------------- pages
\* create_page
CreatePage(isdef) ==
    /\ MayServe
    /\ nextPage < MaxPages
    /\ LET id == nextPage + 1
           cleared == IF isdef
                      THEN [i \in DOMAIN pages |-> [pages[i] EXCEPT !.is_default = FALSE]]
                      ELSE pages
       IN  /\ pages' = cleared @@ (id :> NewPage(id, isdef))
           /\ nextPage' = id
    /\ ret' = Ret("create_page", None, "", 200, "", Absent, 0, 0)
    /\ sent' = <<AlertEvent>>
    /\ req' = Overtaken(req)
    /\ UNCHANGED <<visitors, nextVisitor, frozen>>

\* ------------------------------------------------------------- register
\* mutant: a repeated registration puts the visitor back to pending
RegisterRefreshResets(doc) ==
    [doc EXCEPT !.status = "pending"]

\* register_visitor, known session: update_one $set of last_seen alone; the
\* timestamp is not part of the modelled document
RegisterRefreshSet(doc) ==
    [doc EXCEPT !.status = @]

\* register_visitor, unknown session: the document inserted
RegisterInsert(vs, id, sid) ==
    vs @@ (id :> NewVisitor(id, sid))

RegisterSent(id) ==
    <<AdminEvent("new_visitor", id, "pending", FALSE), AlertEvent>>

Register(sid) ==
    /\ MayServe
    /\ LET ex == FindBySession(visitors, sid)
       IN  IF ex # None
           THEN /\ visitors' = [visitors EXCEPT ![ex] = RegisterRefreshSet(@)]
                /\ ret' = Ret("register", ex, sid, 200, visitors[ex].status, Absent, 0, 0)
                /\ sent' = <<>>
                /\ UNCHANGED nextVisitor
           ELSE /\ nextVisitor < MaxVisitors
                /\ visitors' = RegisterInsert(visitors, nextVisitor + 1, sid)
                /\ nextVisitor' = nextVisitor + 1
                /\ ret' = Ret("register", nextVisitor + 1, sid, 200, "pending", Absent, 0, 0)
                /\ sent' = RegisterSent(nextVisitor + 1)
    /\ req' = Overtaken(req)
    /\ UNCHANGED <<pages, nextPage, frozen>>

\* -------------------------------------------------------------- approve
\* approve_visitor: the $set of update_one
ApproveSet(doc, body_page) ==
    [doc EXCEPT !.status = "approved",
                !.page_id = IF body_page # None THEN body_page ELSE @]

\* approve_visitor: page_content pushed with the approved event
ApproveContent(pgs, visitor, body_page) ==
    LET pid == IF body_page # None THEN body_page ELSE visitor.page_id
    IN  IF pid # None THEN ContentById(pgs, pid) ELSE DefaultContent(pgs)

ApproveSent(pgs, visitor, body_page) ==
    << VisitorEvent(visitor.session_id, "approved",
                    ApproveContent(pgs, visitor, body_page), 0, 0, FALSE),
       AdminEvent("visitor_updated", visitor.id, "approved", FALSE),
       AlertEvent >>

\* ------------------------------------------------- approve with rotation
\* mutant: the upper limit of the page count is not checked
RotationCheckNoUpper(pgs, page_ids) ==
    IF Len(page_ids) = 0 \/ Len(page_ids) < MinRotationPages
    THEN 400
    ELSE IF \E i \in 1..Len(page_ids) : page_ids[i] \notin DOMAIN pgs
         THEN 404
         ELSE 200

\* approve_visitor_with_rotation: the status code of the request's validation
RotationCheck(pgs, page_ids) ==
    IF Len(page_ids) = 0 \/ Len(page_ids) < MinRotationPages
                         \/ Len(page_ids) > MaxRotationPages
    THEN 400
    ELSE IF \E i \in 1..Len(page_ids) : page_ids[i] \notin DOMAIN pgs
         THEN 404
         ELSE 200

\* approve_visitor_with_rotation: the $set of update_one
RotationSet(doc, page_ids) ==
    [doc EXCEPT !.status = "approved",
                !.rot_keys = TRUE,
                !.rotation_pages = page_ids,
                !.current_page_index = 0,
                !.is_rotating = TRUE]

RotationSent(pgs, visitor, page_ids) ==
    << VisitorEvent(visitor.session_id, "approved",
                    ContentById(pgs, page_ids[1]), 0, Len(page_ids), TRUE),
       AdminEvent("visitor_updated", visitor.id, "approved", TRUE),
       AlertEvent >>

\* ---------------------------------------------------------- rotate next
\* mutant: the modulus is one short, the last page is never reached
NextIndexShort(visitor) ==
    (visitor.current_page_index + 1) % (Len(visitor.rotation_pages) - 1)

\* rotate_to_next_page: next_index, from the document that was read
NextIndex(visitor) ==
    (visitor.current_page_index + 1) % Len(visitor.rotation_pages)

\* rotate_to_next_page: the $set of update_one
RotateSet(doc, next_index) ==
    [doc EXCEPT !.current_page_index = next_index]

\* mutant: the event carries the page the visitor was already on
RotateSentStale(pgs, visitor) ==
    << VisitorEvent(visitor.session_id, "rotate_page",
                    ContentById(pgs, visitor.rotation_pages[visitor.current_page_index + 1]),
                    NextIndex(visitor), Len(visitor.rotation_pages), FALSE) >>

\* rotate_to_next_page: the one notify_visitor call, no broadcast
RotateSent(pgs, visitor) ==
    << VisitorEvent(visitor.session_id, "rotate_page",
                    ContentById(pgs, visitor.rotation_pages[NextIndex(visitor) + 1]),
                    NextIndex(visitor), Len(visitor.rotation_pages), FALSE) >>

\* -------------------------------------------------------- stop rotation
\* mutant: the index of the page the visitor stopped on is kept
StopSetKeepsIndex(doc) ==
    [doc EXCEPT !.is_rotating = FALSE,
                !.rot_keys = TRUE,
                !.rotation_pages = <<>>]

\* stop_page_rotation: the $set of update_one
StopSet(doc) ==
    [doc EXCEPT !.is_rotating = FALSE,
                !.rot_keys = TRUE,
                !.rotation_pages = <<>>,
                !.current_page_index = 0]

\* stop_page_rotation: the content of the page to freeze, from the document read
StopContent(pgs, visitor) ==
    IF /\ Len(visitor.rotation_pages) > 0
       /\ visitor.current_page_index < Len(visitor.rotation_pages)
    THEN ContentById(pgs, visitor.rotation_pages[visitor.current_page_index + 1])
    ELSE NoContent

StopSent(pgs, visitor) ==
    << VisitorEvent(visitor.session_id, "stop_rotation", StopContent(pgs, visitor),
                    0, 0, FALSE),
       AdminEvent("visitor_updated", visitor.id, "approved", FALSE),
       AlertEvent >>

\* ---------------------------------------------------------------- block
\* block_visitor: the $set of update_one
BlockSet(doc) ==
    [doc EXCEPT !.status = "blocked"]

BlockSent(visitor) ==
    << VisitorEvent(visitor.session_id, "blocked", Absent, 0, 0, FALSE),
       AdminEvent("visitor_updated", visitor.id, "blocked", FALSE),
       AlertEvent >>

\* ------------------------------------------ the five admin PUT handlers
\* mutant: a session that is not rotating is reported as not found
ValidateNotFound(op, vs, pgs, id, page_ids) ==
    IF id \notin DOMAIN vs THEN 404
    ELSE IF op = "approve_rotate" THEN RotationCheck(pgs, page_ids)
    ELSE IF op = "rotate_next" /\ ~vs[id].is_rotating THEN 404
    ELSE 200

\* mutant: an unknown id is answered as a bad request
ValidateUnknownBadRequest(op, vs, pgs, id, page_ids) ==
    IF id \in DOMAIN vs THEN ValidateNotFound(op, vs, pgs, id, page_ids)
    ELSE 400

\* the handler up to its update_one: 404 for an unknown id, then the checks of
\* the request against the document read
Validate(op, vs, pgs, id, page_ids) ==
    IF id \notin DOMAIN vs THEN 404
    ELSE IF op = "approve_rotate" THEN RotationCheck(pgs, page_ids)
    ELSE IF op = "rotate_next" /\ ~vs[id].is_rotating THEN 400
    ELSE 200

\* update_one({"id": id}, {"$set": ...}): applied to the stored document, if any;
\* visitor is the document the handler read
UpdateOne(op, vs, id, visitor, body_page, page_ids) ==
    IF id \notin DOMAIN vs THEN vs
    ELSE [vs EXCEPT ![id] =
            CASE op = "approve"        -> ApproveSet(@, body_page)
              [] op = "approve_rotate" -> RotationSet(@, page_ids)
              [] op = "rotate_next"    -> RotateSet(@, NextIndex(visitor))
              [] op = "stop_rotation"  -> StopSet(@)
              [] op = "block"          -> BlockSet(@)]

\* the events of the handler after its update_one
SentOf(op, pgs, visitor, body_page, page_ids) ==
    CASE op = "approve"        -> ApproveSent(pgs, visitor, body_page)
      [] op = "approve_rotate" -> RotationSent(pgs, visitor, page_ids)
      [] op = "rotate_next"    -> RotateSent(pgs, visitor)
      [] op = "stop_rotation"  -> StopSent(pgs, visitor)
      [] op = "block"          -> BlockSent(visitor)

\* the response of a handler that got to its end
RetOf(op, visitor, page_ids) ==
    CASE op = "rotate_next" ->
            Ret(op, visitor.id, visitor.session_id, 200, "", Absent,
                NextIndex(visitor), Len(visitor.rotation_pages))
      [] op = "approve_rotate" ->
            Ret(op, visitor.id, visitor.session_id, 200, "", Absent, 0, Len(page_ids))
      [] OTHER ->
            Ret(op, visitor.id, visitor.session_id, 200, "", Absent, 0, 0)

\* HTTPException raised before any write
Rejected(op, id, code) ==
    Ret(op, id, "", code, "", Absent, 0, 0)

\* the page a stop_page_rotation froze the visitor on ("get current page to
\* freeze it"), kept until the visitor is approved again or deleted
FrozenAfter(op, fz, vs, id, pgs, visitor) ==
    IF id \notin DOMAIN vs THEN fz
    ELSE IF op = "stop_rotation" /\ visitor.is_rotating
         THEN [fz EXCEPT ![id] = StopContent(pgs, visitor)]
    ELSE IF op \in {"approve", "approve_rotate"}
         THEN [fz EXCEPT ![id] = Absent]
    ELSE fz

\* a handler run from its find_one to its return with no other request between
Handle(op, id, body_page, page_ids) ==
    /\ MayServe
    /\ LET code == Validate(op, visitors, pages, id, page_ids)
       IN  IF code # 200
           THEN /\ ret' = OfRequest(Rejected(op, id, code), page_ids)
                /\ sent' = <<>>
                /\ UNCHANGED <<visitors, frozen>>
           ELSE /\ visitors' = UpdateOne(op, visitors, id, visitors[id], body_page, page_ids)
                /\ ret' = OfRequest(RetOf(op, visitors[id], page_ids), page_ids)
                /\ sent' = SentOf(op, pages, visitors[id], body_page, page_ids)
                /\ frozen' = FrozenAfter(op, frozen, visitors, id, pages, visitors[id])
    /\ req' = Overtaken(req)
    /\ UNCHANGED <<pages, nextVisitor, nextPage>>

Approve(id, body_page) == Handle("approve", id, body_page, <<>>)

ApproveWithRotation(id, page_ids) == Handle("approve_rotate", id, None, page_ids)

RotateNext(id) == Handle("rotate_next", id, None, <<>>)

StopRotation(id) == Handle("stop_rotation", id, None, <<>>)

Block(id) == Handle("block", id, None, <<>>)

\* --------------------------------------------------------------- remove
\* delete_visitor
\* mutant: a blocked visitor's document survives the delete
DeleteOneKeepsBlocked(vs, id) ==
    IF id \in DOMAIN vs /\ vs[id].status = "blocked" THEN vs
    ELSE [i \in DOMAIN vs \ {id} |-> vs[i]]

\* db.visitors.delete_one({"id": visitor_id}): no error when nothing matches
DeleteOne(vs, id) ==
    [i \in DOMAIN vs \ {id} |-> vs[i]]

Remove(id) ==
    /\ MayServe
    /\ visitors' = DeleteOne(visitors, id)
    /\ ret' = Ret("remove", id, "", 200, "", Absent, 0, 0)
    /\ sent' = <<AdminEvent("visitor_deleted", id, "", FALSE)>>
    /\ frozen' = [frozen EXCEPT ![id] = Absent]
    /\ req' = Overtaken(req)
    /\ UNCHANGED <<pages, nextVisitor, nextPage>>

\* --------------------------------------------------------------- status
\* get_visitor_status: page_content of the response for an approved visitor
StatusContent(pgs, visitor) ==
    LET pid == visitor.page_id
        page == IF pid # None
                THEN (IF pid \in DOMAIN pgs THEN pid ELSE None)
                ELSE FindDefaultPage(pgs)
    IN  IF page # None THEN pgs[page].content ELSE Absent

StatusView(pgs, visitor) ==
    Ret("status", visitor.id, visitor.session_id, 200, visitor.status,
        IF visitor.status = "approved" THEN StatusContent(pgs, visitor) ELSE Absent,
        0, 0)

\* get_visitor_status: 404 when no document has the session_id
StatusResponse(vs, pgs, sid) ==
    LET v == FindBySession(vs, sid)
    IN  IF v = None
        THEN Ret("status", None, sid, 404, "", Absent, 0, 0)
        ELSE StatusView(pgs, vs[v])

Status(sid) ==
    /\ MayServe
    /\ ret' = StatusResponse(visitors, pages, sid)
    /\ sent' = <<>>
    /\ req' = Overtaken(req)
    /\ UNCHANGED <<visitors, pages, nextVisitor, nextPage, frozen>>

\* ------------------------------------- a handler suspended at its awaits
\* an admin handler up to the await of its update_one: the document is read
\* and the request checked; other requests are served before it resumes
Begin(op, id, body_page, page_ids) ==
    /\ ret = NoRet
    /\ req.pc = "idle"
    /\ LET code == Validate(op, visitors, pages, id, page_ids)
       IN  IF code # 200
           THEN /\ ret' = OfRequest(Rejected(op, id, code), page_ids)
                /\ UNCHANGED req
           ELSE /\ req' = [pc |-> "update", op |-> op, vid |-> id,
                           visitor |-> visitors[id], body_page |-> body_page,
                           page_ids |-> page_ids, overtaken |-> 0]
                /\ UNCHANGED ret
    /\ UNCHANGED <<visitors, pages, nextVisitor, nextPage, sent, frozen>>

\* the suspended handler resumes: update_one, then the events and the response
\* computed from the document it read
Finish ==
    /\ ret = NoRet
    /\ req.pc = "update"
    /\ visitors' = UpdateOne(req.op, visitors, req.vid, req.visitor,
                             req.body_page, req.page_ids)
    /\ ret' = OfRequest(RetOf(req.op, req.visitor, req.page_ids), req.page_ids)
    /\ sent' = SentOf(req.op, pages, req.visitor, req.body_page, req.page_ids)
    /\ frozen' = FrozenAfter(req.op, frozen, visitors, req.vid, pages, req.visitor)
    /\ req' = NoReq
    /\ UNCHANGED <<pages, nextVisitor, nextPage>>

\* register_visitor up to the awaits that follow its find_one (get_geo,
\* insert_one): no document has the session_id; other requests are served
\* before it resumes
RegisterBegin(sid) ==
    /\ ret = NoRet
    /\ req.pc = "idle"
    /\ FindBySession(visitors, sid) = None
    /\ nextVisitor < MaxVisitors
    /\ req' = [NoReq EXCEPT !.pc = "insert", !.op = "register",
                            !.visitor = NewVisitor(None, sid)]
    /\ UNCHANGED <<visitors, pages, nextVisitor, nextPage, ret, sent, frozen>>

\* the suspended register_visitor resumes: insert_one of a document with a
\* fresh uuid, whatever the collection holds by now, then new_visitor
RegisterFinish ==
    /\ ret = NoRet
    /\ req.pc = "insert"
    /\ visitors' = RegisterInsert(visitors, nextVisitor + 1, req.visitor.session_id)
    /\ nextVisitor' = nextVisitor + 1
    /\ ret' = Ret("register", nextVisitor + 1, req.visitor.session_id, 200,
                  "pending", Absent, 0, 0)
    /\ sent' = RegisterSent(nextVisitor + 1)
    /\ req' = NoReq
    /\ UNCHANGED <<pages, nextPage, frozen>>

Next ==
    \/ Respond /\ UNCHANGED regvars
    \/ \E d \in BOOLEAN : CreatePage(d) /\ UNCHANGED regvars
    \/ \E s \in Sessions : Register(s) /\ UNCHANGED regvars
    \/ \E i \in VisitorIds, p \in PageIds \cup {None} :
          Approve(i, p) /\ UNCHANGED regvars
    \/ \E i \in VisitorIds, l \in PageLists :
          ApproveWithRotation(i, l) /\ UNCHANGED regvars
    \/ \E i \in VisitorIds : RotateNext(i) /\ UNCHANGED regvars
    \/ \E i \in VisitorIds : StopRotation(i) /\ UNCHANGED regvars
    \/ \E i \in VisitorIds : Block(i) /\ UNCHANGED regvars
    \/ \E i \in VisitorIds : Remove(i) /\ UNCHANGED regvars
    \/ \E s \in Sessions : Status(s) /\ UNCHANGED regvars

Spec == Init /\ [][Next]_vars

ConcNext ==
    \/ Next
    \/ \E i \in VisitorIds, p \in PageIds \cup {None} :
          Begin("approve", i, p, <<>>) /\ UNCHANGED regvars
    \/ \E i \in VisitorIds, l \in PageLists :
          Begin("approve_rotate", i, None, l) /\ UNCHANGED regvars
    \/ \E i \in VisitorIds, o \in {"rotate_next", "stop_rotation", "block"} :
          Begin(o, i, None, <<>>) /\ UNCHANGED regvars
    \/ Finish /\ UNCHANGED regvars
    \/ \E s \in Sessions : RegisterBegin(s) /\ UNCHANGED regvars
    \/ RegisterFinish /\ UNCHANGED regvars

ConcSpec == Init /\ [][ConcNext]_vars

\* ===================================================================
\* ConnectionManager: admin connections
\* ===================================================================
Range(q) == {q[k] : k \in 1..Len(q)}

\* list.remove(ws): the first occurrence is taken out
RemoveFirst(q, ws) ==
    LET k == CHOOSE j \in 1..Len(q) : q[j] = ws /\ \A h \in 1..(j - 1) : q[h] # ws
    IN  [j \in 1..(Len(q) - 1) |-> IF j < k THEN q[j] ELSE q[j + 1]]

\* broadcast_admins, "for ws in dead: self.admin_connections.remove(ws)":
\* remove raises ValueError for a ws that is no longer in the list, and the
\* loop ends there
RECURSIVE RemoveDead(_, _)
RemoveDead(conns, dead) ==
    IF dead = <<>> THEN [conns |-> conns, raised |-> FALSE]
    ELSE IF Head(dead) \notin Range(conns) THEN [conns |-> conns, raised |-> TRUE]
    ELSE RemoveDead(RemoveFirst(conns, Head(dead)), Tail(dead))

\* broadcast_admins resumed from "await ws.send_json(data)": send_json raised
\* unless the connection is open, and the except clause appends it to dead
Settle(st, t) ==
    IF t.ws = None THEN t
    ELSE IF st[t.ws] = "open"
         THEN [t EXCEPT !.got = @ \cup {t.ws}, !.ws = None]
         ELSE [t EXCEPT !.dead = Append(@, t.ws), !.ws = None]

\* mutant: the loop over the connections ends once a send has failed
FetchStopsAtFailure(conns, t) ==
    IF t.i <= Len(conns) /\ t.dead = <<>>
    THEN [conns |-> conns,
          task  |-> [t EXCEPT !.pc = "send", !.ws = conns[t.i], !.i = @ + 1]]
    ELSE LET r == RemoveDead(conns, t.dead)
         IN  [conns |-> r.conns,
              task  |-> [t EXCEPT !.pc = IF r.raised THEN "error" ELSE "done"]]

\* "for ws in self.admin_connections": the list iterator takes the element at
\* its index in the list as it is now and the call awaits the send to it; past
\* the end of the list the dead connections are removed, with no await, and
\* the call returns or raises
Fetch(conns, t) ==
    IF t.i <= Len(conns)
    THEN [conns |-> conns,
          task  |-> [t EXCEPT !.pc = "send", !.ws = conns[t.i], !.i = @ + 1]]
    ELSE LET r == RemoveDead(conns, t.dead)
         IN  [conns |-> r.conns,
              task  |-> [t EXCEPT !.pc = IF r.raised THEN "error" ELSE "done"]]

\* broadcast_admins from one await to the next
BroadcastStep(conns, st, t) ==
    Fetch(conns, Settle(st, t))

\* broadcast_admins with nothing else running between its awaits
RECURSIVE BroadcastRun(_, _, _)
BroadcastRun(conns, st, t) ==
    IF t.pc \in {"done", "error"} THEN [conns |-> conns, task |-> t]
    ELSE LET r == BroadcastStep(conns, st, t)
         IN  BroadcastRun(r.conns, st, r.task)

\* websocket_admin: connect_admin
ConnectAdmin(a) ==
    /\ aconn[a] = "new"
    /\ aconn' = [aconn EXCEPT ![a] = "open"]
    /\ admin_connections' = Append(admin_connections, a)
    /\ UNCHANGED tasks

\* the peer of an admin connection goes away: send_json raises from now on
BreakAdmin(a) ==
    /\ aconn[a] = "open"
    /\ aconn' = [aconn EXCEPT ![a] = "broken"]
    /\ UNCHANGED <<admin_connections, tasks>>

\* websocket_admin: receive_text raises WebSocketDisconnect, disconnect_admin
DisconnectAdmin(a) ==
    /\ aconn[a] \in {"open", "broken", "stuck"}
    /\ aconn' = [aconn EXCEPT ![a] = "closed"]
    /\ admin_connections' = IF a \in Range(admin_connections)
                            THEN RemoveFirst(admin_connections, a)
                            ELSE admin_connections
    /\ UNCHANGED tasks

\* broadcast_admins is entered: dead = [], the loop is about to start
StartTask(conns) ==
    [NoTask EXCEPT !.pc = "iter", !.before = Range(conns)]

\* a handler calls manager.broadcast_admins(data) and the call runs through
BroadcastAdmins(t) ==
    /\ tasks[t].pc = "idle"
    /\ \A a \in Range(admin_connections) : aconn[a] # "stuck"
    /\ LET r == BroadcastRun(admin_connections, aconn, StartTask(admin_connections))
       IN  /\ admin_connections' = r.conns
           /\ tasks' = [tasks EXCEPT ![t] = r.task]
    /\ UNCHANGED aconn

\* the call is over: its handler goes on, or answers 500 if it raised
BroadcastReturn(t) ==
    /\ tasks[t].pc \in {"done", "error"}
    /\ tasks' = [tasks EXCEPT ![t] = NoTask]
    /\ UNCHANGED <<admin_connections, aconn>>

\* a handler calls manager.broadcast_admins(data): up to the first await
BroadcastBegin(t) ==
    /\ tasks[t].pc = "idle"
    /\ LET r == Fetch(admin_connections, StartTask(admin_connections))
       IN  /\ admin_connections' = r.conns
           /\ tasks' = [tasks EXCEPT ![t] = r.task]
    /\ UNCHANGED aconn

\* the awaited send_json has returned or raised (there is no timeout around
\* it): the call resumes and runs to its next await or to its end
BroadcastSend(t) ==
    /\ tasks[t].pc = "send"
    /\ aconn[tasks[t].ws] # "stuck"
    /\ LET r == BroadcastStep(admin_connections, aconn, tasks[t])
       IN  /\ admin_connections' = r.conns
           /\ tasks' = [tasks EXCEPT ![t] = r.task]
    /\ UNCHANGED aconn

AdminNext ==
    \/ \E a \in AdminConns : ConnectAdmin(a) /\ UNCHANGED <<dbvars, visvars>>
    \/ \E a \in AdminConns : BreakAdmin(a) /\ UNCHANGED <<dbvars, visvars>>
    \/ \E a \in AdminConns : DisconnectAdmin(a) /\ UNCHANGED <<dbvars, visvars>>
    \/ \E t \in Broadcasts : BroadcastAdmins(t) /\ UNCHANGED <<dbvars, visvars>>
    \/ \E t \in Broadcasts : BroadcastReturn(t) /\ UNCHANGED <<dbvars, visvars>>

AdminSpec == Init /\ [][AdminNext]_vars

BcastNext ==
    \/ AdminNext
    \/ \E t \in Broadcasts : BroadcastBegin(t) /\ UNCHANGED <<dbvars, visvars>>
    \/ \E t \in Broadcasts : BroadcastSend(t) /\ UNCHANGED <<dbvars, visvars>>

BcastSpec == Init /\ [][BcastNext]_vars

\* the peer of an admin connection stops reading without closing: a
\* send_json to it neither returns nor raises
StickAdmin(a) ==
    /\ aconn[a] = "open"
    /\ aconn' = [aconn EXCEPT ![a] = "stuck"]
    /\ UNCHANGED <<admin_connections, tasks>>

LiveNext ==
    \/ BcastNext
    \/ \E a \in AdminConns : StickAdmin(a) /\ UNCHANGED <<dbvars, visvars>>

\* the event loop resumes a coroutine whose await is over, and a call that
\* ended returns to its handler
Fairness ==
    \A t \in Broadcasts :
        /\ WF_vars(BroadcastSend(t) /\ UNCHANGED <<dbvars, visvars>>)
        /\ WF_vars(BroadcastReturn(t) /\ UNCHANGED <<dbvars, visvars>>)

LiveSpec == Init /\ [][LiveNext]_vars /\ Fairness

\* ===================================================================
\* ConnectionManager: visitor connections
\* ===================================================================
\* mutant: the event is put in front of what was sent before
NotifyVisitorNewestFirst(reg, vc, dl, ev) ==
    LET ws == reg[ev.sid]
    IN  IF ws = NoConn THEN [reg |-> reg, dl |-> dl]
        ELSE IF vc[ws].state = "open"
             THEN [reg |-> reg, dl |-> [dl EXCEPT ![ws] = <<ev.event>> \o @]]
             ELSE [reg |-> [reg EXCEPT ![ev.sid] = NoConn], dl |-> dl]

\* notify_visitor: the data goes to the one WebSocket the dict holds for the
\* session_id; if send_json raises, the session_id is popped
NotifyVisitor(reg, vc, dl, ev) ==
    LET ws == reg[ev.sid]
    IN  IF ws = NoConn THEN [reg |-> reg, dl |-> dl]
        ELSE IF vc[ws].state = "open"
             THEN [reg |-> reg, dl |-> [dl EXCEPT ![ws] = Append(@, ev.event)]]
             ELSE [reg |-> [reg EXCEPT ![ev.sid] = NoConn], dl |-> dl]

\* the notify_visitor calls of one handler, in the order it makes them
RECURSIVE NotifyAll(_, _, _, _)
NotifyAll(reg, vc, dl, evs) ==
    IF evs = <<>> THEN [reg |-> reg, dl |-> dl]
    ELSE IF Head(evs).ch # "visitor" THEN NotifyAll(reg, vc, dl, Tail(evs))
    ELSE LET r == NotifyVisitor(reg, vc, dl, Head(evs))
         IN  NotifyAll(r.reg, vc, r.dl, Tail(evs))

\* the handler's events reach the manager before the handler returns
Deliver ==
    /\ LET r == NotifyAll(visitor_connections, vconn, delivered, sent')
       IN  /\ visitor_connections' = r.reg
           /\ delivered' = r.dl
    /\ UNCHANGED vconn

\* events delivered so far to the visitor WebSockets cs
RECURSIVE Delivered(_)
Delivered(cs) ==
    IF cs = {} THEN 0
    ELSE LET c == CHOOSE x \in cs : TRUE
         IN  Len(delivered[c]) + Delivered(cs \ {c})

\* fewer than MaxLog events were delivered: a handler that notifies may run
LogRoom == Delivered(VisConns) < MaxLog

\* websocket_visitor: connect_visitor
ConnectVisitor(c, sid) ==
    /\ vconn[c].state = "new"
    /\ vconn' = [vconn EXCEPT ![c] = [state |-> "open", sid |-> sid]]
    /\ visitor_connections' = [visitor_connections EXCEPT ![sid] = c]
    /\ UNCHANGED delivered

\* the peer of a visitor connection goes away: send_json raises from now on
BreakVisitor(c) ==
    /\ vconn[c].state = "open"
    /\ vconn' = [vconn EXCEPT ![c].state = "broken"]
    /\ UNCHANGED <<visitor_connections, delivered>>

\* websocket_visitor: receive_text raises WebSocketDisconnect,
\* disconnect_visitor(session_id)
DisconnectVisitor(c) ==
    /\ vconn[c].state \in {"open", "broken"}
    /\ vconn' = [vconn EXCEPT ![c].state = "closed"]
    /\ visitor_connections' = [visitor_connections EXCEPT ![vconn[c].sid] = NoConn]
    /\ UNCHANGED delivered

VisNext ==
    \/ Respond /\ Deliver /\ UNCHANGED admvars
    \/ \E s \in Sessions : Register(s) /\ Deliver /\ UNCHANGED admvars
    \/ \E i \in VisitorIds : LogRoom /\ Approve(i, None) /\ Deliver /\ UNCHANGED admvars
    \/ \E i \in VisitorIds : LogRoom /\ Block(i) /\ Deliver /\ UNCHANGED admvars
    \/ \E i \in VisitorIds : Remove(i) /\ Deliver /\ UNCHANGED admvars
    \/ \E c \in VisConns, s \in Sessions :
          ConnectVisitor(c, s) /\ UNCHANGED <<dbvars, admvars>>
    \/ \E c \in VisConns : BreakVisitor(c) /\ UNCHANGED <<dbvars, admvars>>
    \/ \E c \in VisConns : DisconnectVisitor(c) /\ UNCHANGED <<dbvars, admvars>>

VisSpec == Init /\ [][VisNext]_vars

\* ===================================================================
\* Properties
\* ===================================================================
\* a handler has just run: the previous response was delivered, this one is new
Served(op) == ret = NoRet /\ ret'.op = op

\* null and missing page_content are the same thing to the visitor
Shown(c) == IF c = Absent THEN NoContent ELSE c

\* the content a visitor is meant to see: the rotation page if rotation is
\* active, else the explicit page, else the default page
EffectiveContent(pgs, v) ==
    IF v.is_rotating
    THEN ContentById(pgs, v.rotation_pages[v.current_page_index + 1])
    ELSE IF v.page_id # None THEN ContentById(pgs, v.page_id)
    ELSE DefaultContent(pgs)

\* C1: every visitor whose rotation is active has status approved and between
\* 2 and 6 rotation pages (block must leave rotation inactive).
C1_RotatingIsApproved ==
    \A i \in DOMAIN visitors :
        visitors[i].is_rotating =>
            /\ visitors[i].status = "approved"
            /\ Len(visitors[i].rotation_pages) >= 2
            /\ Len(visitors[i].rotation_pages) <= 6

\* C2: a status poll of an approved session returns the effective content:
\* the rotation page at current_page_index when rotation is active, else the
\* explicit page, else the default page.
C2_StatusReturnsEffectiveContent ==
    (ret.op = "status" /\ ret.code = 200 /\ ret.status = "approved") =>
        Shown(ret.content) = Shown(EffectiveContent(pages, visitors[ret.vid]))

\* C3: after a successful approve the session is approved and its rotation is
\* inactive, whatever it was before.
C3_ApproveClearsRotation ==
    (ret.op = "approve" /\ ret.code = 200 /\ ret.vid \in DOMAIN visitors) =>
        /\ visitors[ret.vid].status = "approved"
        /\ ~visitors[ret.vid].is_rotating

\* C4: once rotation was stopped, rotation is inactive and a status poll of the
\* (still approved, not re-approved) session returns the content of the page
\* that was current when stop_rotation ran, the frozen page.
C4_StatusReturnsFrozenPage ==
    /\ (ret.op = "stop_rotation" /\ ret.code = 200 /\ ret.vid \in DOMAIN visitors) =>
            ~visitors[ret.vid].is_rotating
    /\ ( /\ ret.op = "status" /\ ret.code = 200 /\ ret.status = "approved"
         /\ frozen[ret.vid] # Absent
         /\ ~visitors[ret.vid].is_rotating ) =>
            Shown(ret.content) = Shown(frozen[ret.vid])

\* C5: no session has both an explicit page_id and an active rotation.
C5_PageIdExcludesRotation ==
    \A i \in DOMAIN visitors :
        ~(visitors[i].page_id # None /\ visitors[i].is_rotating)

\* C6: approve-with-rotation on a known session is rejected with 400 when it
\* carries fewer than 2 or more than 6 page ids and with 404 when a page id
\* names no page; a rejected call leaves the visitor documents as they were and
\* hands no event to the manager.
C6_RotationRejection ==
    [][ (Served("approve_rotate") /\ ret'.vid \in DOMAIN visitors) =>
          LET n == Len(ret'.req_ids)
              missing == \E k \in 1..n : ret'.req_ids[k] \notin DOMAIN pages
          IN  /\ (n < 2 \/ n > 6) => ret'.code = 400
              /\ (n >= 2 /\ n <= 6 /\ missing) => ret'.code = 404
              /\ (n >= 2 /\ n <= 6 /\ ~missing) => ret'.code = 200
              /\ ret'.code # 200 =>
                    /\ visitors' = visitors
                    /\ sent' = <<>> ]_vars

C6_Witness ==
    /\ ret.op = "approve_rotate" /\ ret.code = 404
    /\ ret.vid \in DOMAIN visitors
    /\ Len(ret.req_ids) = 2
    /\ visitors[ret.vid].status = "approved"
    /\ visitors[ret.vid].page_id # None

\* C7: register with a session_id that already has a document returns that
\* document's id, changes no modelled field of any document, inserts nothing and
\* emits no event; new_visitor is emitted only by a call that inserts a document.
C7_RegisterIdempotent ==
    [][ /\ (Served("register") /\ FindBySession(visitors, ret'.sid) # None) =>
              /\ ret'.vid = FindBySession(visitors, ret'.sid)
              /\ ret'.status = visitors[ret'.vid].status
              /\ visitors' = visitors
              /\ sent' = <<>>
        /\ (\E k \in 1..Len(sent') : sent'[k].event = "new_visitor") =>
              \/ sent' = sent
              \/ /\ Served("register")
                 /\ FindBySession(visitors, ret'.sid) = None
                 /\ DOMAIN visitors' = DOMAIN visitors \cup {ret'.vid}
                 /\ ret'.vid \notin DOMAIN visitors ]_vars

C7_Witness ==
    /\ ret.op = "register" /\ sent = <<>>
    /\ ret.vid \in DOMAIN visitors
    /\ visitors[ret.vid].status = "blocked"
    /\ visitors[ret.vid].is_rotating

\* rotate_to_next_page applied k times in a row to one document
RECURSIVE RotateTimes(_, _)
RotateTimes(doc, k) ==
    IF k = 0 THEN doc
    ELSE RotateTimes(RotateSet(doc, NextIndex(doc)), k - 1)

\* C8: on a session rotating over N pages a successful rotate-next returns and
\* stores (current_page_index + 1) mod N, and N rotate-next calls in a row bring
\* current_page_index back to where it started.
C8_RotationIsCircular ==
    [][ (Served("rotate_next") /\ ret'.code = 200) =>
          LET old == visitors[ret'.vid]
              new == visitors'[ret'.vid]
              n   == Len(old.rotation_pages)
          IN  /\ n >= 2 /\ n <= 6
              /\ ret'.total = n
              /\ ret'.index = (old.current_page_index + 1) % n
              /\ new.current_page_index = (old.current_page_index + 1) % n
              /\ new.rotation_pages = old.rotation_pages
              /\ RotateTimes(new, n - 1).current_page_index = old.current_page_index
              /\ \A k \in 1..(n - 1) :
                    RotateTimes(old, k).current_page_index # old.current_page_index
       ]_vars

C8_Witness ==
    /\ ret.op = "rotate_next" /\ ret.code = 200
    /\ ret.total = 6 /\ ret.index = 0
    /\ visitors[ret.vid].current_page_index = 0

\* C9: also when rotate-next interleaves with approve-with-rotation or
\* stop-rotation on the same session, every session with active rotation has
\* 0 <= current_page_index < number of rotation pages.
C9_IndexInRange ==
    \A i \in DOMAIN visitors :
        visitors[i].is_rotating =>
            /\ visitors[i].current_page_index >= 0
            /\ visitors[i].current_page_index < Len(visitors[i].rotation_pages)

\* C10: rotate-next on a known session whose rotation is not active is rejected
\* with 400, leaves every document unchanged and hands no event to the manager.
C10_RotateNextNeedsRotation ==
    [][ ( /\ Served("rotate_next")
          /\ ret'.vid \in DOMAIN visitors
          /\ ~visitors[ret'.vid].is_rotating ) =>
             /\ ret'.code = 400
             /\ visitors' = visitors
             /\ sent' = <<>> ]_vars

C10_Witness ==
    /\ ret.op = "rotate_next" /\ ret.code = 400
    /\ ret.vid \in DOMAIN visitors
    /\ visitors[ret.vid].rot_keys
    /\ visitors[ret.vid].status = "approved"

\* the admin operations that address a visitor by id and update its document
AdminOps == {"approve", "approve_rotate", "rotate_next", "stop_rotation", "block"}

\* C15: blocked is terminal: a document whose status is blocked keeps that
\* status as long as it exists, whatever request is served (only remove ends
\* it), and no request puts a status back to pending.
C15_BlockedIsTerminal ==
    [][ \A i \in DOMAIN visitors \cap DOMAIN visitors' :
          /\ visitors[i].status = "blocked" => visitors'[i].status = "blocked"
          /\ visitors[i].status # "pending" => visitors'[i].status # "pending"
      ]_vars

\* C16: also when a remove is served between an admin handler's read and its
\* write, the handler either updates the document and emits its events or does
\* neither: events of a successful admin operation are never emitted for a
\* document its update did not reach.
C16_UpdateAndEventsTogether ==
    (ret.op \in AdminOps /\ ret.code = 200 /\ sent # <<>>) =>
        ret.vid \in DOMAIN visitors

\* C18: remove answers 200 whether or not a document has the id; afterwards
\* no document has it, the other documents are as they were, the manager was
\* handed exactly one visitor_deleted broadcast and nothing for a visitor
\* connection, and a status poll of the removed document's session_id is
\* answered 404.
C18_RemoveAlwaysSucceeds ==
    [][ Served("remove") =>
          /\ ret'.code = 200
          /\ ret'.vid \notin DOMAIN visitors'
          /\ \A i \in DOMAIN visitors \ {ret'.vid} :
                i \in DOMAIN visitors' /\ visitors'[i] = visitors[i]
          /\ sent' = <<AdminEvent("visitor_deleted", ret'.vid, "", FALSE)>>
          /\ \A k \in 1..Len(sent') : sent'[k].ch # "visitor"
          /\ ret'.vid \in DOMAIN visitors =>
                StatusResponse(visitors', pages', visitors[ret'.vid].session_id).code = 404
      ]_vars

C18_Witness ==
    /\ ret.op = "remove" /\ ret.code = 200
    /\ ret.vid <= nextVisitor
    /\ ret.vid \notin DOMAIN visitors
    /\ Len(sent) = 1 /\ sent[1].event = "visitor_deleted"
    /\ FindBySession(visitors, "s1") = None

\* C19: approve, approve-with-rotation, rotate-next, stop-rotation and block
\* with an id no document has are answered 404, change no document and no page
\* and hand no event to the manager.
C19_UnknownIdNotFound ==
    [][ \A op \in AdminOps :
          (Served(op) /\ ret'.vid \notin DOMAIN visitors) =>
              /\ ret'.code = 404
              /\ visitors' = visitors
              /\ pages' = pages
              /\ sent' = <<>> ]_vars

C19_Witness ==
    /\ ret.op = "stop_rotation" /\ ret.code = 404
    /\ ret.vid \notin DOMAIN visitors
    /\ ret.vid <= nextVisitor
    /\ sent = <<>>

\* C20: a successful rotate-next hands the manager exactly one event, a
\* rotate_page for the visitor connection of the document's session_id carrying
\* the content of the rotation page at the new index, and nothing for the admin
\* connections; in the documents it changes current_page_index of that one
\* document and nothing else.
C20_RotateNextFrame ==
    [][ (Served("rotate_next") /\ ret'.code = 200) =>
          LET old == visitors[ret'.vid]
              new == visitors'[ret'.vid]
          IN  /\ Len(sent') = 1
              /\ sent'[1].ch = "visitor"
              /\ sent'[1].sid = old.session_id
              /\ sent'[1].event = "rotate_page"
              /\ sent'[1].index = new.current_page_index
              /\ sent'[1].content =
                    ContentById(pages, old.rotation_pages[new.current_page_index + 1])
              /\ visitors' = [visitors EXCEPT
                                ![ret'.vid].current_page_index = new.current_page_index]
              /\ pages' = pages
      ]_vars

C20_Witness ==
    /\ ret.op = "rotate_next" /\ ret.code = 200
    /\ Len(sent) = 1 /\ sent[1].event = "rotate_page"
    /\ sent[1].index = 1
    /\ sent[1].content = ContentOf(visitors[ret.vid].rotation_pages[2])
    /\ visitors[ret.vid].current_page_index = 1

\* C12: a broadcast in which the send to some admin connections raises still
\* delivers the data to every admin connection whose send succeeds, and when
\* it returns exactly the connections whose send raised are gone from
\* admin_connections, the others in their order (two connections, one broken:
\* one is left).
C12_BroadcastSurvivesFailures ==
    [][ \A t \in Broadcasts :
          (tasks[t].pc = "idle" /\ tasks'[t].pc # "idle") =>
              LET failed == {a \in Range(admin_connections) : aconn[a] # "open"}
              IN  /\ tasks'[t].pc = "done"
                  /\ tasks'[t].got = Range(admin_connections) \ failed
                  /\ admin_connections' =
                        SelectSeq(admin_connections, LAMBDA a : a \notin failed)
                  /\ Len(admin_connections') =
                        Len(admin_connections) - Cardinality(failed)
      ]_vars

C12_Witness ==
    \E t \in Broadcasts :
        /\ tasks[t].pc = "done"
        /\ tasks[t].i = 3
        /\ Len(tasks[t].dead) = 1
        /\ Cardinality(tasks[t].got) = 1
        /\ Len(admin_connections) = 1
        /\ tasks[t].got = Range(admin_connections)

\* C17: a send that fails during a broadcast is never surfaced to the caller
\* of the operation that broadcast: no broadcast_admins call raises, also when
\* two broadcasts find the same connection dead or a connection is
\* disconnected while a broadcast is under way.
C17_BroadcastNeverRaises ==
    \A t \in Broadcasts : tasks[t].pc # "error"

\* the event an admin operation sends to the session's visitor connection
EventOf(op) ==
    CASE op = "approve" -> "approved"
      [] op = "approve_rotate" -> "approved"
      [] op = "rotate_next" -> "rotate_page"
      [] op = "stop_rotation" -> "stop_rotation"
      [] op = "block" -> "blocked"

\* the WebSocket c is the one the manager holds for the session_id of its url
Registered(c) ==
    /\ vconn[c].sid \in Sessions
    /\ visitor_connections[vconn[c].sid] = c

C13_AllConnectionsHeld ==
    \A c \in VisConns : vconn[c].state = "open" => Registered(c)

\* C14: when a visitor connection is detached (its handler sees the
\* disconnect), only that connection leaves the manager: another connection
\* that is held and stays open is still held afterwards.
C14_DetachRemovesOnlyThat ==
    [][ \A c \in VisConns, d \in VisConns :
          ( /\ c # d
            /\ vconn[c].state # "closed" /\ vconn'[c].state = "closed"
            /\ Registered(d) /\ vconn'[d].state = "open" ) =>
                Registered(d)' ]_vars

\* C21: stop-rotation on a known session answers 200 whether or not rotation
\* is active; afterwards rotation is inactive, the page list is empty,
\* current_page_index is 0 and status and page_id are as before; a second
\* stop-rotation is accepted again and leaves the document exactly as the
\* first one left it.
C21_StopRotationIdempotent ==
    [][ (Served("stop_rotation") /\ ret'.vid \in DOMAIN visitors) =>
          LET id  == ret'.vid
              old == visitors[id]
              new == visitors'[id]
          IN  /\ ret'.code = 200
              /\ ~new.is_rotating
              /\ new.rotation_pages = <<>>
              /\ new.current_page_index = 0
              /\ new.status = old.status
              /\ new.page_id = old.page_id
              /\ \A j \in DOMAIN visitors \ {id} :
                    j \in DOMAIN visitors' /\ visitors'[j] = visitors[j]
              /\ Validate("stop_rotation", visitors', pages', id, <<>>) = 200
              /\ UpdateOne("stop_rotation", visitors', id, new, None, <<>>) = visitors'
      ]_vars

\* a stop-rotation of a session whose rotation an earlier stop-rotation ended
C21_Witness ==
    /\ ret.op = "stop_rotation" /\ ret.code = 200
    /\ frozen[ret.vid] # Absent
    /\ Len(sent) = 3 /\ sent[1].event = "stop_rotation"
    /\ sent[1].content = NoContent
    /\ ~visitors[ret.vid].is_rotating
    /\ visitors[ret.vid].rotation_pages = <<>>

\* C22: no update is lost when two rotate-next calls on one session run
\* concurrently: when a rotate-next that read index k resumes after another
\* rotate-next has stored k + 1 over the same page list, it stores
\* (k + 2) mod N and returns an index other than the k + 1 the other call
\* returned.
C22_NoLostRotation ==
    [][ ( /\ req.pc = "update" /\ req.op = "rotate_next" /\ req'.pc = "idle"
          /\ req.vid \in DOMAIN visitors
          /\ visitors[req.vid].is_rotating
          /\ visitors[req.vid].rotation_pages = req.visitor.rotation_pages
          /\ visitors[req.vid].current_page_index =
                req.visitor.current_page_index + 1 ) =>
             LET n == Len(req.visitor.rotation_pages)
             IN  /\ visitors'[req.vid].current_page_index =
                       (req.visitor.current_page_index + 2) % n
                 /\ ret'.index # visitors[req.vid].current_page_index
      ]_vars

\* C23: however register calls with one session_id interleave, the store
\* holds at most one document per session_id (so that every call returns that
\* document's id and new_visitor is emitted once).
C23_OneRecordPerSession ==
    \A i \in DOMAIN visitors, j \in DOMAIN visitors :
        visitors[i].session_id = visitors[j].session_id => i = j

\* C24: an admin connection that was connected when a broadcast began, is
\* still in admin_connections when it ends and is open (its send does not
\* fail) got the data, whatever other connections connected, disconnected or
\* were evicted while the broadcast was under way.
C24_AttachedObserverReceives ==
    [][ \A t \in Broadcasts :
          ( /\ tasks[t].pc \notin {"done", "error"}
            /\ tasks'[t].pc \in {"done", "error"} ) =>
              \A a \in tasks'[t].before :
                  (a \in Range(admin_connections') /\ aconn'[a] = "open") =>
                      a \in tasks'[t].got
      ]_vars

\* C25: a send that never completes does not stall a broadcast: every
\* broadcast_admins call that awaits a send eventually is past its sends (it
\* has gone through the remaining connections and returns to the handler that
\* called it), also when the peer it sends to neither reads nor fails.
C25_StuckSendDoesNotStall ==
    \A t \in Broadcasts :
        (tasks[t].pc = "send") ~> (tasks[t].pc # "send")
====
